---------------------------- MODULE Spec2Model ----------------------------
(***************************************************************************)
(* Dispatch and resilience layer of the MCP business-task orchestrator.    *)
(*                                                                         *)
(*  - Resilience envelope: APIExecutorAgent (_execute_api_call, rate       *)
(*    limiter, circuit breaker), agent_system/agents/specialists/          *)
(*    api_executor.py.                                                     *)
(*  - Tool registry and dispatcher: ToolRegistry (register, unregister,    *)
(*    execute_tool, bounded execution history),                            *)
(*    mcp_server/app/core/services/tool_registry.py.                       *)
(*  - Agents: AgentRegistry (create, delete, find_capable_agents),          *)
(*    mcp_server/app/core/services/agent_registry.py, and the lifecycle of *)
(*    BaseAgent (assign_task, _handle_task_assignment),                    *)
(*    agent_system/core/base_agent.py.                                     *)
(*  - Task orchestrator: TaskOrchestrator (create_task,                    *)
(*    update_task_status, create_business_analysis),                       *)
(*    mcp_server/app/core/services/task_orchestrator.py.                   *)
(*  - Planning orchestrator: handle_user_query (plan round, execute round, *)
(*    summary round), agent_system/agents/orchestrator.py, and the         *)
(*    JSON-RPC endpoint it calls: mcp_endpoint and handle_tools_call,      *)
(*    mcp_server/app/main.py.                                              *)
(*                                                                         *)
(* Coroutines run on one asyncio event loop: code between two suspension   *)
(* points is one atomic step.  The suspension points are the backing HTTP  *)
(* request of _execute_api_call and the tool implementation's sleep in     *)
(* execute_tool; the async helpers (_check_rate_limit, ...) and the        *)
(* uncontended asyncio.Lock never suspend.  handle_user_query suspends in  *)
(* each HTTP request to the MCP server and in each LLM call.               *)
(***************************************************************************)
EXTENDS Integers, Sequences, FiniteSets, TLC

VARIABLES
    \* ---- APIExecutorAgent ----
    now,               \* asyncio event loop clock (seconds)
    api_configs,       \* self.api_configs: api name -> configured rate_limit
    rate_limits,       \* self.rate_limits: api name -> list of call times
    circuit_breakers,  \* self.circuit_breakers: api name -> breaker dict
    inflight,          \* api name -> coroutines suspended in the backing request
    recorded,          \* ghost: api name -> every time _update_rate_limit ran
    streak,            \* ghost: api name -> failure outcomes since last success
    ev,                \* ghost: what the last envelope step did
    \* ---- ToolRegistry ----
    tools,             \* self.tools: tool name -> MCPTool
    executions,        \* self.executions: list of ToolExecution
    execs,             \* coroutines running execute_tool
    nexec,             \* number of ToolExecution objects created (fresh ids)
    nappend,           \* ghost: number of appends to self.executions
    rev,               \* ghost: what the last registry step did
    registered,        \* ghost: tool name -> the tool of its latest register_tool
    listed,            \* the mapping a caller got from get_all_tools
    \* ---- AgentRegistry, BaseAgent, TaskOrchestrator ----
    agents,            \* AgentRegistry.agents: the agent objects, in dict order
    tasks,             \* TaskOrchestrator.tasks: the BusinessTask objects, in dict order
    lock,              \* TaskOrchestrator._lock: "free" or the method holding it
    analysis,          \* self.analyses and the create_business_analysis coroutine
    oev,               \* ghost: what the last agent or orchestrator step did
    \* ---- handle_user_query, mcp_endpoint ----
    run,               \* one handle_user_query coroutine: its locals and position
    rpc                \* ghost: the last tools/call exchange of mcp_endpoint

envVars == <<now, api_configs, rate_limits, circuit_breakers, inflight,
             recorded, streak, ev>>
regVars == <<tools, executions, execs, nexec, nappend, rev, registered, listed>>
orchVars == <<agents, tasks, lock, analysis, oev>>
planVars == <<run, rpc>>
vars == <<envVars, regVars, orchVars, planVars>>

\* what a step of one component leaves alone
EnvelopeOnly == UNCHANGED <<regVars, orchVars, planVars>>
RegistryOnly == UNCHANGED <<envVars, orchVars, planVars>>
OrchestratorOnly == UNCHANGED <<envVars, regVars, planVars>>
PlanningOnly == UNCHANGED <<envVars, regVars, orchVars>>

\* Python's None where the program stores a time
NoTime == -1

-----------------------------------------------------------------------------
(* Bounds of the model *)

MaxFailures == 7     \* largest failure count a breaker reaches
MaxRecorded == 4     \* backing responses explored per api name
MaxInflight == 2     \* concurrent _execute_api_call coroutines
MaxTicks == 3        \* clock advances explored
MaxLimit == 3        \* largest configured rate_limit explored
TimeStep == 30       \* seconds per clock advance

StartTime == TimeStep
MaxTime == StartTime + MaxTicks * TimeStep

(* Program constants of APIExecutorAgent *)

RateWindow == 60         \* window_start = now - 60
DefaultRateLimit == 60   \* .get("rate_limit", 60)
RecoveryTimeout == 30    \* time_since_failure > 30
FailureThreshold == 5    \* breaker_state["failures"] >= 5

-----------------------------------------------------------------------------
(* Inputs of the envelope *)

ApiNames == {"X"}
NoApi == "NoApi"                    \* api_call.get("api_name") is None or ""
ApiInputs == ApiNames \cup {NoApi}
\* What the backing request does: a response with a status code in the given
\* class, or an exception raised by httpx (unreachable, timeout).
Outcomes == {"2xx", "3xx", "4xx5xx", "transport"}

-----------------------------------------------------------------------------
(* APIExecutorAgent helpers *)

DefaultBreaker == [failures |-> 0, last_failure |-> NoTime, state |-> "closed"]

\* self.rate_limits.get(api_name, [])
RateList(rl, api) == IF api \in DOMAIN rl THEN rl[api] ELSE <<>>

\* self.circuit_breakers.get(api_name, {...closed...})
BreakerOf(cb, api) == IF api \in DOMAIN cb THEN cb[api] ELSE DefaultBreaker

\* self.api_configs.get(api_name, {}).get("rate_limit", 60)
RateLimitOf(api) ==
    IF api \in DOMAIN api_configs THEN api_configs[api] ELSE DefaultRateLimit

\* a window test that keeps the entry lying exactly on the window's edge
InWindow_inclusive(ts, t) == ts >= t - RateWindow

\* call_time > window_start, with window_start = now - 60
InWindow(ts, t) == ts > t - RateWindow

RecentCalls(rl, api, t) == SelectSeq(RateList(rl, api), LAMBDA ts : InWindow(ts, t))

\* _check_rate_limit: TRUE when the call is allowed
CheckRateLimit(api, rl, t) ==
    IF api = NoApi THEN TRUE
    ELSE ~(Len(RecentCalls(rl, api, t)) >= RateLimitOf(api))

\* a record that appends and never cleans up
UpdateRateLimit_noPrune(api, rl, t) ==
    IF api = NoApi THEN rl
    ELSE [a \in DOMAIN rl \cup {api} |->
            IF a = api THEN Append(RateList(rl, api), t) ELSE rl[a]]

\* _update_rate_limit: the new self.rate_limits
UpdateRateLimit(api, rl, t) ==
    IF api = NoApi THEN rl
    ELSE [a \in DOMAIN rl \cup {api} |->
            IF a = api
            THEN SelectSeq(Append(RateList(rl, api), t), LAMBDA ts : InWindow(ts, t))
            ELSE rl[a]]

\* a recovery test that already passes exactly at the timeout
RecoveryElapsed_inclusive(last_failure, t) == t - last_failure >= RecoveryTimeout

\* the recovery test of _check_circuit_breaker
RecoveryElapsed(last_failure, t) == t - last_failure > RecoveryTimeout

\* _check_circuit_breaker: [ok |-> allowed, cb |-> the new self.circuit_breakers]
\* (the half_open transition is written into the stored dict)
CheckCircuitBreaker(api, cb, t) ==
    IF api = NoApi THEN [ok |-> TRUE, cb |-> cb]
    ELSE LET b == BreakerOf(cb, api) IN
         IF b.state = "open"
         THEN IF b.last_failure # NoTime /\ b.last_failure # 0
              THEN IF RecoveryElapsed(b.last_failure, t)
                   THEN [ok |-> TRUE,
                         cb |-> [cb EXCEPT ![api].state = "half_open"]]
                   ELSE [ok |-> FALSE, cb |-> cb]
              ELSE [ok |-> TRUE, cb |-> cb]
         ELSE [ok |-> TRUE, cb |-> cb]

\* a threshold test that opens the breaker one failure early
ThresholdReached_early(failures) == failures >= FailureThreshold - 1

\* a threshold test that opens the breaker one failure late
ThresholdReached_late(failures) == failures > FailureThreshold

\* the failure branch's threshold test
ThresholdReached(failures) == failures >= FailureThreshold

\* a success branch that closes the breaker and keeps the count
BreakerOnSuccess_keepCount(b) == [b EXCEPT !.state = "closed"]

\* a success branch that resets the count and forgets the state
BreakerOnSuccess_keepState(b) == [b EXCEPT !.failures = 0]

\* the breaker dict after a success
BreakerOnSuccess(b) == [b EXCEPT !.failures = 0, !.state = "closed"]

\* a failure branch that stamps the time and does not count
BreakerOnFailure_stampOnly(b, t) == [b EXCEPT !.last_failure = t]

\* the breaker dict after a failure at time t
BreakerOnFailure(b, t) ==
    LET f == b.failures + 1 IN
    [failures |-> f, last_failure |-> t,
     state |-> IF ThresholdReached(f) THEN "open" ELSE b.state]

\* _update_circuit_breaker: the new self.circuit_breakers
UpdateCircuitBreaker(api, cb, success, t) ==
    IF api = NoApi THEN cb
    ELSE LET b == BreakerOf(cb, api) IN
         [a \in DOMAIN cb \cup {api} |->
            IF a = api
            THEN IF success THEN BreakerOnSuccess(b) ELSE BreakerOnFailure(b, t)
            ELSE cb[a]]

\* response.status_code < 400
StatusBelow400(outcome) == outcome \in {"2xx", "3xx"}

\* 200 <= response.status_code < 300
Status2xx(outcome) == outcome = "2xx"

-----------------------------------------------------------------------------
(* Ghost bookkeeping of the envelope *)

\* failure outcomes fed to the breaker since the last success outcome
StreakAfter(api, success) ==
    IF api = NoApi THEN streak
    ELSE [streak EXCEPT ![api] = IF success THEN 0 ELSE @ + 1]

NoEvent ==
    [op |-> "init", api |-> NoApi, time |-> 0, denied |-> "none",
     backing |-> FALSE, rate_checked |-> FALSE, rate_ok |-> FALSE,
     cb_checked |-> FALSE, cb_ok |-> FALSE, fed |-> "none", result |-> "none",
     pre_cb |-> <<>>, pre_rl |-> <<>>, pre_streak |-> 0, burst |-> 0,
     outcome |-> "none", error |-> FALSE]

Event(op, api) ==
    [NoEvent EXCEPT !.op = op, !.api = api, !.time = now,
                    !.pre_cb = circuit_breakers, !.pre_rl = rate_limits,
                    !.pre_streak = IF api = NoApi THEN 0 ELSE streak[api]]

InflightTotal == inflight[NoApi] + inflight["X"]

\* backing requests issued for api back to back at the current clock value,
\* the one being issued included
BurstAfter(api) ==
    IF ev.op = "begin" /\ ev.backing /\ ev.api = api /\ ev.time = now
    THEN ev.burst + 1
    ELSE 1

-----------------------------------------------------------------------------
(* APIExecutorAgent actions *)

InitEnvelope ==
    /\ now = StartTime
    /\ api_configs \in [ApiNames -> 1..MaxLimit]
    /\ rate_limits = <<>>
    /\ circuit_breakers = <<>>
    /\ inflight = [a \in ApiInputs |-> 0]
    /\ recorded = [a \in ApiNames |-> <<>>]
    /\ streak = [a \in ApiNames |-> 0]
    /\ ev = NoEvent

\* The except branch of _execute_api_call (lines 173-194): the breaker is fed
\* a failure and a result with success False is returned.
FailCall(api, cb, e) ==
    /\ circuit_breakers' = UpdateCircuitBreaker(api, cb, FALSE, now)
    /\ streak' = StreakAfter(api, FALSE)
    /\ ev' = [e EXCEPT !.fed = IF api = NoApi THEN "none" ELSE "failure",
                       !.result = "failure", !.error = TRUE]

\* _execute_api_call up to the backing request (lines 100-132)
BeginCall(api, hasUrl) ==
    /\ EnvelopeOnly
    /\ UNCHANGED <<now, api_configs, rate_limits, recorded>>
    /\ LET e0 == Event("begin", api)
           rateOk == CheckRateLimit(api, rate_limits, now)
           chk == CheckCircuitBreaker(api, circuit_breakers, now)
       IN
       IF ~hasUrl
       THEN /\ FailCall(api, circuit_breakers, [e0 EXCEPT !.denied = "url"])
            /\ UNCHANGED inflight
       ELSE IF ~rateOk
       THEN /\ FailCall(api, circuit_breakers,
                        [e0 EXCEPT !.denied = "rate", !.rate_checked = TRUE])
            /\ UNCHANGED inflight
       ELSE IF ~chk.ok
       THEN /\ FailCall(api, chk.cb,
                        [e0 EXCEPT !.denied = "breaker", !.rate_checked = TRUE,
                                   !.rate_ok = TRUE, !.cb_checked = TRUE])
            /\ UNCHANGED inflight
       ELSE /\ circuit_breakers' = chk.cb
            /\ inflight' = [inflight EXCEPT ![api] = @ + 1]
            /\ streak' = streak
            /\ ev' = [e0 EXCEPT !.rate_checked = TRUE, !.rate_ok = TRUE,
                                !.cb_checked = TRUE, !.cb_ok = TRUE,
                                !.backing = TRUE, !.burst = BurstAfter(api)]

\* _execute_api_call from the backing request's completion (lines 134-194)
Respond(api, outcome) ==
    /\ inflight[api] > 0
    /\ EnvelopeOnly
    /\ inflight' = [inflight EXCEPT ![api] = @ - 1]
    /\ UNCHANGED <<now, api_configs>>
    /\ LET e0 == [Event("respond", api) EXCEPT !.outcome = outcome] IN
       IF outcome = "transport"
       THEN /\ FailCall(api, circuit_breakers, e0)
            /\ UNCHANGED <<rate_limits, recorded>>
       ELSE /\ rate_limits' = UpdateRateLimit(api, rate_limits, now)
            /\ recorded' = IF api = NoApi THEN recorded
                           ELSE [recorded EXCEPT ![api] = Append(@, now)]
            /\ circuit_breakers' =
                 UpdateCircuitBreaker(api, circuit_breakers, StatusBelow400(outcome), now)
            /\ streak' = StreakAfter(api, StatusBelow400(outcome))
            /\ ev' = [e0 EXCEPT
                        !.fed = IF api = NoApi THEN "none"
                                ELSE IF StatusBelow400(outcome) THEN "success"
                                ELSE "failure",
                        !.result = IF Status2xx(outcome) THEN "success" ELSE "failure"]

\* the event loop clock advances
Tick ==
    /\ now + TimeStep <= MaxTime
    /\ EnvelopeOnly
    /\ now' = now + TimeStep
    /\ ev' = [NoEvent EXCEPT !.op = "tick"]
    /\ UNCHANGED <<api_configs, rate_limits, circuit_breakers, inflight,
                   recorded, streak>>

\* the part of the behaviour the model explores
WithinBounds(api) ==
    /\ InflightTotal < MaxInflight
    /\ api # NoApi =>
         /\ BreakerOf(circuit_breakers, api).failures + inflight[api] < MaxFailures
         /\ Len(recorded[api]) + inflight[api] < MaxRecorded

NextEnvelope ==
    \/ \E api \in ApiInputs, hasUrl \in BOOLEAN :
          WithinBounds(api) /\ BeginCall(api, hasUrl)
    \/ \E api \in ApiInputs, outcome \in Outcomes : Respond(api, outcome)
    \/ Tick

-----------------------------------------------------------------------------
(* ToolRegistry: bounds, constants and inputs *)

MaxExec == 3          \* ToolExecution objects created in the interleaved model
MaxRunning == 2       \* execute_tool coroutines suspended in a tool at once
HistoryExtra == 3     \* appends explored beyond the history cap

HistoryCap == 1000    \* len(self.executions) > 1000

ToolNames == {"financial_analyzer", "api_connector"}
ToolStatuses == {"active", "inactive", "error"}      \* ToolStatus
\* the MCPTool values given to register_tool
ToolInputs ==
    {[status |-> "active", description |-> "d1"],
     [status |-> "inactive", description |-> "d2"],
     [status |-> "error", description |-> "d1"]}

\* what self.tools.get(name) returns for an absent name
NoTool == [status |-> "none", description |-> "none"]

-----------------------------------------------------------------------------
(* ToolRegistry helpers *)

\* get_tool: self.tools.get(tool_name)
GetTool(name) == IF name \in DOMAIN tools THEN tools[name] ELSE NoTool

\* a register that keeps the tool a name already has
Upsert_keepFirst(d, name, tool) ==
    [n \in DOMAIN d \cup {name} |-> IF n \in DOMAIN d THEN d[n] ELSE tool]

\* self.tools[tool.name] = tool
Upsert(d, name, tool) ==
    [n \in DOMAIN d \cup {name} |-> IF n = name THEN tool ELSE d[n]]

\* del self.tools[tool_name]
Remove(d, name) == [n \in DOMAIN d \ {name} |-> d[n]]

\* no mapping handed out yet
NoListing == [held |-> FALSE, alias |-> FALSE, entries |-> <<>>]

\* a get_all_tools that hands out self.tools itself
CopyOf_alias(d) == [held |-> TRUE, alias |-> TRUE, entries |-> d]

\* self.tools.copy(): a new dict with the entries of this moment
CopyOf(d) == [held |-> TRUE, alias |-> FALSE, entries |-> d]

\* what the holder of a handed-out mapping reads in it now
Observed(listing) == IF listing.alias THEN tools ELSE listing.entries

\* an execute_tool that keeps self._lock through the tool implementation
HoldsLock_duringCall(execution) == TRUE

\* execute_tool awaits the tool implementation outside every
\* async with self._lock (line 94): a suspended invocation holds no lock
HoldsLock(execution) == FALSE

\* async with self._lock can be entered by a coroutine other than those in
\* waiting
LockFree(waiting) == \A execution \in execs \ waiting : ~HoldsLock(execution)

\* a lookup test that lets an absent tool through
ToolMissing_never(tool) == FALSE

\* if not tool
ToolMissing(tool) == tool = NoTool

\* a status test that only rejects inactive tools
ToolNotActive_inactiveOnly(tool) == tool.status = "inactive"

\* if tool.status != ToolStatus.ACTIVE
ToolNotActive(tool) == tool.status # "active"

\* a trim that keeps the head of the list
TrimHistory_head(h) == IF Len(h) > HistoryCap THEN SubSeq(h, 1, HistoryCap) ELSE h

\* if len(self.executions) > 1000: self.executions = self.executions[-1000:]
TrimHistory(h) ==
    IF Len(h) > HistoryCap THEN SubSeq(h, Len(h) - HistoryCap + 1, Len(h)) ELSE h

\* a store that sits at the end of the try block instead of in finally
StoreExecution_onSuccessOnly(h, execution) ==
    IF execution.error = "none" THEN TrimHistory(Append(h, execution)) ELSE h

\* the finally block of execute_tool: the new self.executions
StoreExecution(h, execution) == TrimHistory(Append(h, execution))

\* get_execution_history: self.executions[offset:offset + limit]
GetExecutionHistory(limit, offset) ==
    SubSeq(executions, offset + 1,
           IF offset + limit < Len(executions) THEN offset + limit ELSE Len(executions))

\* ToolExecution(tool_name=..., parameters=...) with a fresh id; ord is a
\* ghost field, the position of the record among all appends
NewExecution(name) ==
    [id |-> nexec + 1, tool_name |-> name, result |-> FALSE, error |-> "none",
     ord |-> 0]

NoRegEvent ==
    [op |-> "init", id |-> 0, tool |-> "none", params_ok |-> TRUE,
     present |-> FALSE, status |-> "none", invoked |-> FALSE,
     outcome |-> "none", exc |-> "none", error |-> "none", result |-> FALSE]

RegEvent(op, name) ==
    [NoRegEvent EXCEPT !.op = op, !.tool = name,
                       !.present = name \in DOMAIN tools,
                       !.status = IF name \in DOMAIN tools
                                  THEN tools[name].status ELSE "none"]

-----------------------------------------------------------------------------
(* ToolRegistry actions *)

InitRegistry ==
    /\ tools = <<>>
    /\ executions = <<>>
    /\ execs = {}
    /\ nexec = 0
    /\ nappend = 0
    /\ rev = NoRegEvent
    /\ registered = [n \in ToolNames |-> NoTool]
    /\ listed = NoListing

\* register_tool: upsert by name
RegisterTool(name, tool) ==
    /\ LockFree({})
    /\ tools' = Upsert(tools, name, tool)
    /\ registered' = [registered EXCEPT ![name] = tool]
    /\ rev' = [NoRegEvent EXCEPT !.op = "register", !.outcome = "returned"]
    /\ RegistryOnly
    /\ UNCHANGED <<executions, execs, nexec, nappend, listed>>

\* unregister_tool: False for an absent name
UnregisterTool(name) ==
    /\ LockFree({})
    /\ tools' = IF name \in DOMAIN tools THEN Remove(tools, name) ELSE tools
    /\ registered' = [registered EXCEPT ![name] = NoTool]
    /\ rev' = [NoRegEvent EXCEPT !.op = "unregister", !.outcome = "returned",
                                 !.result = name \in DOMAIN tools]
    /\ RegistryOnly
    /\ UNCHANGED <<executions, execs, nexec, nappend, listed>>

\* get_tool called by a client of the registry
GetToolCall(name) ==
    /\ LockFree({})
    /\ rev' = [NoRegEvent EXCEPT !.op = "get", !.tool = name,
                                 !.outcome = "returned",
                                 !.present = GetTool(name) # NoTool,
                                 !.status = GetTool(name).status]
    /\ RegistryOnly
    /\ UNCHANGED <<tools, executions, execs, nexec, nappend, registered, listed>>

\* get_all_tools: the caller keeps the mapping it was given
GetAllTools ==
    /\ LockFree({})
    /\ listed' = CopyOf(tools)
    /\ rev' = [NoRegEvent EXCEPT !.op = "list_all", !.outcome = "returned"]
    /\ RegistryOnly
    /\ UNCHANGED <<tools, executions, execs, nexec, nappend, registered>>

\* The except and finally blocks of execute_tool for one execution: the error
\* is written into the record, the record is stored, and a
\* ToolExecutionException leaves execute_tool.
FailExecution(execution, error, e) ==
    LET failed == [execution EXCEPT !.error = error, !.ord = nappend + 1] IN
    /\ executions' = StoreExecution(executions, failed)
    /\ nappend' = nappend + 1
    /\ rev' = [e EXCEPT !.id = execution.id, !.outcome = "raised",
                        !.exc = "ToolExecutionException", !.error = error]

\* execute_tool up to the tool implementation's suspension (lines 69-94)
ExecStart(name, paramsAreMap) ==
    LET e0 == [RegEvent("execute", name) EXCEPT !.params_ok = paramsAreMap]
        execution == NewExecution(name)
        tool == GetTool(name)
    IN
    /\ RegistryOnly
    /\ UNCHANGED <<tools, registered, listed>>
    /\ IF ~paramsAreMap
       THEN \* ToolExecution's parameters: Dict[str, Any] rejects the value:
            \* pydantic raises before the try block is entered
            /\ rev' = [e0 EXCEPT !.outcome = "raised", !.exc = "ValidationError",
                                 !.error = "invalid_parameters"]
            /\ UNCHANGED <<executions, execs, nexec, nappend>>
       ELSE /\ LockFree({})
            /\ nexec' = nexec + 1
            /\ IF ToolMissing(tool)
               THEN /\ FailExecution(execution, "not_found", e0)
                    /\ UNCHANGED execs
               ELSE IF ToolNotActive(tool)
               THEN /\ FailExecution(execution, "not_active", e0)
                    /\ UNCHANGED execs
               ELSE /\ execs' = execs \cup {execution}
                    /\ rev' = [e0 EXCEPT !.id = execution.id, !.invoked = TRUE]
                    /\ UNCHANGED <<executions, nappend>>

\* execute_tool from the tool implementation's completion (lines 94-131)
ExecFinish(execution, implOk) ==
    LET e0 == [RegEvent("finish", execution.tool_name) EXCEPT
                  !.present = TRUE, !.status = "active"]
    IN
    /\ execution \in execs
    /\ LockFree({execution})
    /\ RegistryOnly
    /\ execs' = execs \ {execution}
    /\ UNCHANGED <<tools, nexec, registered, listed>>
    /\ IF implOk
       THEN LET done == [execution EXCEPT !.result = TRUE, !.ord = nappend + 1] IN
            /\ executions' = StoreExecution(executions, done)
            /\ nappend' = nappend + 1
            /\ rev' = [e0 EXCEPT !.id = execution.id, !.outcome = "returned",
                                 !.result = TRUE]
       ELSE FailExecution(execution, "backing_failed", e0)

NextRegistry ==
    \/ \E name \in ToolNames, tool \in ToolInputs : RegisterTool(name, tool)
    \/ \E name \in ToolNames : UnregisterTool(name)
    \/ \E name \in ToolNames, paramsAreMap \in BOOLEAN :
          nexec < MaxExec /\ Cardinality(execs) < MaxRunning /\ ExecStart(name, paramsAreMap)
    \/ \E execution \in execs, implOk \in BOOLEAN : ExecFinish(execution, implOk)

\* register, unregister, get and list_all on one registry
NextLookup ==
    \/ \E name \in ToolNames, tool \in ToolInputs : RegisterTool(name, tool)
    \/ \E name \in ToolNames : UnregisterTool(name)
    \/ \E name \in ToolNames : GetToolCall(name)
    \/ GetAllTools

\* the same beside invocations of one tool suspended in their backing call
NextLock ==
    \/ \E tool \in ToolInputs : RegisterTool("api_connector", tool)
    \/ UnregisterTool("api_connector")
    \/ GetToolCall("api_connector")
    \/ GetAllTools
    \/ nexec < MaxExec /\ Cardinality(execs) < MaxRunning /\ ExecStart("api_connector", TRUE)
    \/ \E execution \in execs, implOk \in BOOLEAN : ExecFinish(execution, implOk)

\* one caller invoking execute_tool for a name that was never registered
NextHistory ==
    \E name \in {"api_connector"} :
        nexec < HistoryCap + HistoryExtra /\ ExecStart(name, TRUE)

-----------------------------------------------------------------------------
(* Agent registry, agent lifecycle and task orchestrator: bounds and inputs *)

MaxCompleted == 1     \* tasks an agent completes
MaxTasks == 2         \* BusinessTask objects stored by create_task

SubtaskCount == 3     \* [data_collection_task, analysis_task, report_task]

\* agent.id: create_agent hands agent_id="" to the registered class, and
\* BaseAgent.__init__ keeps what it is handed; a class that generates an
\* identity of its own yields a non-empty one.
AgentIds == {"", "agent-1"}
NoAgent == "None"                    \* Python's None where an agent id is expected
NoTask == 0                          \* self.current_task = None
TaskInputs == 1..2                   \* ids of the BusinessTask given to assign_task
TaskIdInputs == 1..(MaxTasks + 1)    \* task_id given to update_task_status
TaskStatuses == {"pending", "processing", "completed", "failed"}

GeneralCapabilities == {"report_generation", "data_visualization"}
FinanceCapabilities == {"financial_analysis", "data_processing"}
\* request.capabilities given to create_agent
CapabilityInputs == {GeneralCapabilities, GeneralCapabilities \cup FinanceCapabilities}
\* request.domain: a domain of the mapping, and one the mapping does not know
Domains == {"finance", "logistics"}

-----------------------------------------------------------------------------
(* AgentRegistry and BaseAgent helpers *)

\* BaseAgent.__init__
NewAgent(id, capabilities) ==
    [id |-> id, capabilities |-> capabilities, status |-> "idle",
     current_task |-> NoTask, tasks_completed |-> 0, message_queue |-> <<>>]

\* what stands for "no agent" where an agent object is recorded
NoAgentObject == NewAgent(NoAgent, {})

\* position of the key agent_id in self.agents (dict order), 0 when absent
IndexOf(ags, agent_id) ==
    IF \E i \in DOMAIN ags : ags[i].id = agent_id
    THEN CHOOSE i \in DOMAIN ags : ags[i].id = agent_id
    ELSE 0

\* self.agents[agent.id] = agent: a present key keeps its position
PutAgent(ags, agent) ==
    IF IndexOf(ags, agent.id) = 0 THEN Append(ags, agent)
    ELSE [ags EXCEPT ![IndexOf(ags, agent.id)] = agent]

\* del self.agents[agent_id]
RemoveAgent(ags, agent_id) == SelectSeq(ags, LAMBDA a : a.id # agent_id)

\* a status test that also takes an agent in error
IsIdle_orError(agent) == agent.status \in {"idle", "error"}

\* agent.status == AgentStatus.IDLE
IsIdle(agent) == agent.status = "idle"

\* a capability test that is content with one of the required capabilities
HasCapabilities_any(agent, required) ==
    required = {} \/ \E cap \in required : cap \in agent.capabilities

\* all(cap in agent.capabilities for cap in capabilities)
HasCapabilities(agent, required) ==
    \A cap \in required : cap \in agent.capabilities

\* find_capable_agents: the list of agent ids, in the order of self.agents
CapableAgents(ags, required) ==
    LET capable == SelectSeq(ags, LAMBDA a : IsIdle(a) /\ HasCapabilities(a, required))
    IN [k \in 1..Len(capable) |-> capable[k].id]

\* an assign_task guard that turns away only an agent that is processing
NotIdle_processingOnly(agent) == agent.status = "processing"

\* self.status != AgentStatus.IDLE
NotIdle(agent) == agent.status # "idle"

\* assign_task on an idle agent
AgentAssigned(agent, task) ==
    [agent EXCEPT !.current_task = task, !.status = "processing",
                  !.message_queue = Append(@, task)]

\* a task handler whose failure branch puts the agent back to idle
AfterProcessTask_recover(agent, ok) ==
    [agent EXCEPT !.current_task = NoTask, !.status = "idle",
                  !.tasks_completed = IF ok THEN @ + 1 ELSE @,
                  !.message_queue = Tail(@)]

\* a task handler whose failure branch sets the status and keeps current_task
AfterProcessTask_keepTask(agent, ok) ==
    [agent EXCEPT !.current_task = IF ok THEN NoTask ELSE @,
                  !.status = IF ok THEN "idle" ELSE "error",
                  !.tasks_completed = IF ok THEN @ + 1 ELSE @,
                  !.message_queue = Tail(@)]

\* a task handler whose failure branch leaves the agent as it was assigned
AfterProcessTask_noFailureBranch(agent, ok) ==
    [agent EXCEPT !.current_task = IF ok THEN NoTask ELSE @,
                  !.status = IF ok THEN "idle" ELSE @,
                  !.tasks_completed = IF ok THEN @ + 1 ELSE @,
                  !.message_queue = Tail(@)]

\* _handle_task_assignment once process_task has returned (ok) or raised
AfterProcessTask(agent, ok) ==
    [agent EXCEPT !.current_task = NoTask,
                  !.status = IF ok THEN "idle" ELSE "error",
                  !.tasks_completed = IF ok THEN @ + 1 ELSE @,
                  !.message_queue = Tail(@)]

-----------------------------------------------------------------------------
(* TaskOrchestrator helpers *)

\* _get_required_capabilities
GetRequiredCapabilities(domain) ==
    (IF domain = "finance" THEN FinanceCapabilities ELSE {})
        \cup GeneralCapabilities

\* _find_suitable_agent: capable_agents[0], or None
FindSuitableAgent(ags, domain) ==
    LET capable_agents == CapableAgents(ags, GetRequiredCapabilities(domain))
    IN IF Len(capable_agents) = 0 THEN NoAgent ELSE capable_agents[1]

\* Python's truth value of what _find_suitable_agent returned (if agent_id:)
Truthy(agent_id) == agent_id # NoAgent /\ agent_id # ""

\* BusinessTask(...) as create_task constructs it.  title, description,
\* domain, priority and input_data are copied from the request and never read
\* again by the operations below.
NewTask(id) ==
    [id |-> id, status |-> "pending", agent_id |-> NoAgent,
     started_at |-> FALSE, completed_at |-> NoTime]

\* update_task_status on a stored task at clock value t: completed_at is
\* datetime.utcnow() of the call, for completed and for failed
StatusAfterUpdate(task, status, t) ==
    [task EXCEPT !.status = status,
                 !.completed_at = IF status \in {"completed", "failed"} THEN t ELSE @]

-----------------------------------------------------------------------------
(* Ghost bookkeeping of the agents and the orchestrator *)

NoOrchEvent ==
    [op |-> "init", agent |-> NoAgent, task |-> NoTask, domain |-> "none",
     exc |-> "none", ok |-> TRUE, required |-> {}, found |-> <<>>,
     status |-> "none", resp_agent |-> NoAgent,
     pre |-> NoAgentObject, pre_status |-> "none", pre_completed_at |-> NoTime]

OrchEvent(op) == [NoOrchEvent EXCEPT !.op = op]

\* the agent object stored under agent_id, the placeholder when there is none
AgentOf(ags, agent_id) ==
    IF IndexOf(ags, agent_id) = 0 THEN NoAgentObject
    ELSE ags[IndexOf(ags, agent_id)]

-----------------------------------------------------------------------------
(* AgentRegistry and BaseAgent actions *)

InitOrchestrator ==
    /\ agents = <<>>
    /\ tasks = <<>>
    /\ lock = "free"
    /\ analysis = [stored |-> 0, pc |-> "none", subtasks |-> 0, domain |-> "none"]
    /\ oev = NoOrchEvent

\* create_agent: an unknown type raises; otherwise the new agent is stored
\* under its id and started
CreateAgent(agent_id, capabilities, typeKnown) ==
    /\ OrchestratorOnly
    /\ UNCHANGED <<tasks, lock, analysis>>
    /\ IF ~typeKnown
       THEN /\ agents' = agents
            /\ oev' = [OrchEvent("create_agent") EXCEPT !.exc = "unknown_type"]
       ELSE /\ agents' = PutAgent(agents, NewAgent(agent_id, capabilities))
            /\ oev' = [OrchEvent("create_agent") EXCEPT
                          !.agent = agent_id, !.pre = AgentOf(agents, agent_id)]

\* delete_agent: stops and removes a stored agent, False for an absent id
DeleteAgent(agent_id) ==
    /\ OrchestratorOnly
    /\ UNCHANGED <<tasks, lock, analysis>>
    /\ agents' = RemoveAgent(agents, agent_id)
    /\ oev' = [OrchEvent("delete_agent") EXCEPT
                  !.agent = agent_id, !.ok = IndexOf(agents, agent_id) # 0]

\* find_capable_agents called on its own
FindCapableAgents(required) ==
    /\ OrchestratorOnly
    /\ UNCHANGED <<agents, tasks, lock, analysis>>
    /\ oev' = [OrchEvent("find_capable_agents") EXCEPT
                  !.required = required,
                  !.found = CapableAgents(agents, required)]

\* assign_task on a stored agent
AssignTask(agent_id, task) ==
    /\ IndexOf(agents, agent_id) # 0
    /\ OrchestratorOnly
    /\ UNCHANGED <<tasks, lock, analysis>>
    /\ LET i == IndexOf(agents, agent_id)
           e == [OrchEvent("assign_task") EXCEPT
                    !.agent = agent_id, !.task = task, !.pre = agents[i]]
       IN IF NotIdle(agents[i])
          THEN /\ agents' = agents
               /\ oev' = [e EXCEPT !.exc = "not_idle", !.ok = FALSE]
          ELSE /\ agents' = [agents EXCEPT ![i] = AgentAssigned(@, task)]
               /\ oev' = e

\* the message loop takes the TASK_ASSIGNMENT message and
\* _handle_task_assignment runs process_task, which returns (ok) or raises
HandleTaskAssignment(agent_id, ok) ==
    /\ IndexOf(agents, agent_id) # 0
    /\ Len(agents[IndexOf(agents, agent_id)].message_queue) > 0
    /\ OrchestratorOnly
    /\ UNCHANGED <<tasks, lock, analysis>>
    /\ LET i == IndexOf(agents, agent_id) IN
       /\ agents' = [agents EXCEPT ![i] = AfterProcessTask(@, ok)]
       /\ oev' = [OrchEvent("handle_task_assignment") EXCEPT
                     !.agent = agent_id, !.task = Head(agents[i].message_queue),
                     !.ok = ok, !.pre = agents[i]]

-----------------------------------------------------------------------------
(* TaskOrchestrator actions.  Every public method runs under self._lock, an *)
(* asyncio.Lock: a caller passes "async with self._lock" only while the     *)
(* lock is free, and a lock held by the calling coroutine itself is not     *)
(* free either.                                                             *)

\* the callers of create_task: a client, and the sub-task loop of
\* create_business_analysis (line 269)
Callers == {"client", "create_business_analysis"}

\* create_task.  Called from create_business_analysis it is the next sub-task
\* of the loop; its "async with" releases the lock on the way out, so the
\* "async with" of create_business_analysis ends by releasing a lock that is
\* not held (RuntimeError from asyncio.Lock.release).
CreateTask(caller, domain) ==
    /\ lock = "free"
    /\ caller = "create_business_analysis" =>
          (analysis.pc = "subtasks" /\ domain = analysis.domain)
    /\ OrchestratorOnly
    /\ UNCHANGED agents
    /\ lock' = "free"
    /\ LET id == Len(tasks) + 1
           agent_id == FindSuitableAgent(agents, domain)
           bound == Truthy(agent_id) /\ IndexOf(agents, agent_id) # 0
           task == IF bound
                   THEN [NewTask(id) EXCEPT !.agent_id = agent_id,
                                            !.status = "processing",
                                            !.started_at = TRUE]
                   ELSE NewTask(id)
       IN /\ tasks' = Append(tasks, task)
          /\ oev' = [OrchEvent("create_task") EXCEPT
                        !.task = id, !.domain = domain,
                        !.status = task.status, !.resp_agent = task.agent_id]
    /\ analysis' =
          IF caller = "create_business_analysis"
          THEN [analysis EXCEPT
                   !.subtasks = @ + 1,
                   !.pc = IF analysis.subtasks + 1 = SubtaskCount
                          THEN "raised" ELSE "subtasks"]
          ELSE analysis

\* update_task_status
UpdateTaskStatus(task_id, status) ==
    /\ lock = "free"
    /\ OrchestratorOnly
    /\ UNCHANGED <<agents, lock, analysis>>
    /\ IF task_id \notin DOMAIN tasks
       THEN /\ tasks' = tasks
            /\ oev' = [OrchEvent("update_task_status") EXCEPT
                          !.task = task_id, !.status = status, !.ok = FALSE]
       ELSE /\ tasks' = [tasks EXCEPT ![task_id] = StatusAfterUpdate(@, status, now)]
            /\ oev' = [OrchEvent("update_task_status") EXCEPT
                          !.task = task_id, !.status = status,
                          !.pre_status = tasks[task_id].status,
                          !.pre_completed_at = tasks[task_id].completed_at]

\* create_business_analysis up to its first create_task (lines 112-125 and
\* 228-269): the analysis is stored, and the coroutine goes on to create_task
\* with the lock in its hands
CreateBusinessAnalysis(domain) ==
    /\ lock = "free"
    /\ OrchestratorOnly
    /\ UNCHANGED <<agents, tasks>>
    /\ lock' = "create_business_analysis"
    /\ analysis' = [stored |-> analysis.stored + 1, pc |-> "subtasks",
                    subtasks |-> 0, domain |-> domain]
    /\ oev' = [OrchEvent("create_business_analysis") EXCEPT
                  !.domain = domain, !.status = "processing"]

\* the part of the agents' behaviour the model explores
WithinAgentBounds(agent_id) ==
    IsIdle(AgentOf(agents, agent_id)) =>
        AgentOf(agents, agent_id).tasks_completed < MaxCompleted

\* the capability lists given to find_capable_agents
RequiredInputs == {GetRequiredCapabilities(d) : d \in Domains} \cup {{}}

NextAgents ==
    \/ \E agent_id \in AgentIds, capabilities \in CapabilityInputs,
          typeKnown \in BOOLEAN : CreateAgent(agent_id, capabilities, typeKnown)
    \/ \E agent_id \in AgentIds : DeleteAgent(agent_id)
    \/ \E required \in RequiredInputs : FindCapableAgents(required)
    \/ \E agent_id \in AgentIds, task \in TaskInputs :
          WithinAgentBounds(agent_id) /\ AssignTask(agent_id, task)
    \/ \E agent_id \in AgentIds, ok \in BOOLEAN : HandleTaskAssignment(agent_id, ok)

\* the agents of the registry from start to stop: create_agent starts the
\* message loop of an agent under an id the registry does not hold yet, and
\* delete_agent stops the agent it removes
NextAgentLoop ==
    \/ \E agent_id \in AgentIds, capabilities \in CapabilityInputs :
          IndexOf(agents, agent_id) = 0 /\ CreateAgent(agent_id, capabilities, TRUE)
    \/ \E agent_id \in AgentIds : DeleteAgent(agent_id)
    \/ \E agent_id \in AgentIds, task \in TaskInputs :
          WithinAgentBounds(agent_id) /\ AssignTask(agent_id, task)
    \/ \E agent_id \in AgentIds, ok \in BOOLEAN : HandleTaskAssignment(agent_id, ok)

\* create_task beside the agents of the orchestrator's registry
NextAssignment ==
    \/ \E agent_id \in AgentIds, capabilities \in CapabilityInputs,
          typeKnown \in BOOLEAN : CreateAgent(agent_id, capabilities, typeKnown)
    \/ \E agent_id \in AgentIds : DeleteAgent(agent_id)
    \/ \E agent_id \in AgentIds, task \in TaskInputs :
          WithinAgentBounds(agent_id) /\ AssignTask(agent_id, task)
    \/ \E agent_id \in AgentIds, ok \in BOOLEAN : HandleTaskAssignment(agent_id, ok)
    \/ \E domain \in Domains :
          Len(tasks) < MaxTasks /\ CreateTask("client", domain)

\* the task map under create_task, update_task_status and
\* create_business_analysis, beside a registry that only gains agents
NextTasks ==
    \/ \E agent_id \in AgentIds, capabilities \in CapabilityInputs :
          CreateAgent(agent_id, capabilities, TRUE)
    \/ \E caller \in Callers, domain \in Domains :
          Len(tasks) < MaxTasks /\ CreateTask(caller, domain)
    \/ \E task_id \in TaskIdInputs, status \in TaskStatuses :
          UpdateTaskStatus(task_id, status)
    \/ \E domain \in Domains : CreateBusinessAnalysis(domain)

\* the status updates of stored tasks while the clock advances
NextTaskStatus ==
    \/ \E domain \in Domains : Len(tasks) < MaxTasks /\ CreateTask("client", domain)
    \/ \E task_id \in TaskIdInputs, status \in TaskStatuses :
          UpdateTaskStatus(task_id, status)
    \/ Tick

-----------------------------------------------------------------------------
(* Planning orchestrator and JSON-RPC endpoint: bounds and inputs *)

MaxSteps == 2         \* tool_calls of one Plan

\* str(None) of an Optional[str]
NoError == "None"

\* the ToolCall values an LLM plan may hold: ids are not checked for
\* uniqueness and tool_name is any str
StepInputs ==
    {[id |-> "s1", tool_name |-> "financial_analyzer"],
     [id |-> "s2", tool_name |-> "api_connector"],
     [id |-> "s1", tool_name |-> ""]}

RECURSIVE StepSeqs(_)
\* the lists of at most n steps
StepSeqs(n) ==
    IF n = 0 THEN {<<>>}
    ELSE LET shorter == StepSeqs(n - 1) IN
         shorter \cup {Append(q, st) : q \in {q \in shorter : Len(q) = n - 1},
                                      st \in StepInputs}

\* plan_resp.content: text that is no JSON, JSON that is no Plan (no
\* overall_goal), or a Plan; "llm_error" is evolution.generate raising
PlanContents ==
    {[kind |-> k, tool_calls |-> <<>>] : k \in {"not_json", "llm_error"}}
    \cup {[kind |-> k, tool_calls |-> q] :
             k \in {"wrong_shape", "plan"}, q \in StepSeqs(MaxSteps)}

\* summary_resp.content: text that is no JSON, JSON that is no object, an
\* object whose values have the wrong types, an object (its keys present or
\* not); "llm_error" is evolution.generate raising
SummaryContents ==
    {[kind |-> k, has_keys |-> FALSE] :
        k \in {"not_json", "non_object", "wrong_types", "llm_error"}}
    \cup {[kind |-> "object", has_keys |-> b] : b \in BOOLEAN}

\* the params of a tools/call message: missing or empty, a JSON value that
\* is no object, or an object; its name (missing is ""), and its arguments:
\* an object, a falsy value (missing, null, [], 0), or another non-object
MessageInputs ==
    {[params |-> p, name |-> "", arguments |-> "falsy"] : p \in {"falsy", "non_map"}}
    \cup {[params |-> "map", name |-> n, arguments |-> a] :
             n \in {"", "financial_analyzer"}, a \in {"map", "falsy", "non_map"}}

\* how execute_tool ends for handle_tools_call: it returns the record of a
\* success (the tool's value None or not) or raises
ExecOutcomes == {"returned", "returned_none", "ToolExecutionException"}

\* how the POST of one plan step fails for handle_user_query: client.post
\* raises, or raise_for_status does
TransportFailures == {"transport", "http_status"}

-----------------------------------------------------------------------------
(* JSON-RPC endpoint helpers *)

NoResponse ==
    [kind |-> "none", code |-> 0, message |-> "", isError |-> FALSE,
     content |-> FALSE, error |-> NoError]

\* codes that do not tell the three failures apart
ErrorCode_allInternal(failure) == -32603

\* the "code" of the JSON-RPC errors of main.py
ErrorCode(failure) ==
    CASE failure = "missing_name" -> -32602
      [] failure = "execution_failed" -> -32000
      [] failure = "internal" -> -32603

ErrorResponse(failure, message) ==
    [NoResponse EXCEPT !.kind = "error", !.code = ErrorCode(failure),
                       !.message = message]

\* params.get("arguments") or {} handed to ToolExecution(parameters=...)
ArgumentsAreMap(message) == message.arguments # "non_map"

\* execute_tool as handle_tools_call sees it: a ToolExecution or an exception
ExecuteTool(message, outcome) ==
    IF ~ArgumentsAreMap(message)
    THEN [raised |-> TRUE, exc |-> "ValidationError", result |-> FALSE, error |-> NoError]
    ELSE IF outcome = "ToolExecutionException"
    THEN [raised |-> TRUE, exc |-> outcome, result |-> FALSE, error |-> NoError]
    ELSE [raised |-> FALSE, exc |-> "none", result |-> outcome = "returned",
          error |-> NoError]

\* handle_tools_call; kind "raised" is an exception leaving it
HandleToolsCall(message, outcome) ==
    IF message.params = "non_map"
    THEN \* params.get on a list or a str
         [NoResponse EXCEPT !.kind = "raised"]
    ELSE IF message.params = "falsy" \/ message.name = ""
    THEN ErrorResponse("missing_name", "Invalid params: 'name' is required in tools/call")
    ELSE LET execution == ExecuteTool(message, outcome) IN
         IF execution.raised
         THEN ErrorResponse("execution_failed", "Tool execution failed")
         ELSE [NoResponse EXCEPT !.kind = "result",
                                 !.isError = execution.error # NoError,
                                 !.content = execution.result,
                                 !.error = execution.error]

\* mcp_endpoint for a tools/call message: except Exception answers
\* "Internal error"
McpEndpoint(message, outcome) ==
    LET response == HandleToolsCall(message, outcome) IN
    IF response.kind = "raised"
    THEN ErrorResponse("internal", "Internal error")
    ELSE response

NoExchange == [message |-> [params |-> "none", name |-> "", arguments |-> "none"],
               outcome |-> "none", response |-> NoResponse]

-----------------------------------------------------------------------------
(* Planning orchestrator helpers *)

\* the summary written by the except branch of the summary round
FallbackSummary == "fallback: no summary could be formed, see the raw results"

\* a parse that only needs the text to be JSON
PlanParses_jsonOnly(content) == content.kind \in {"plan", "wrong_shape"}

\* json.loads(plan_resp.content) and Plan(**plan_data) both pass
PlanParses(content) == content.kind = "plan"

\* the exception the plan round re-raises
PlanException(content) ==
    CASE content.kind = "llm_error" -> "LLMError"
      [] content.kind = "not_json" -> "JSONDecodeError"
      [] OTHER -> "ValidationError"

\* the body of the tools/call request of one plan step
StepMessage(step) == [params |-> "map", name |-> step.tool_name, arguments |-> "map"]

\* a result that forgets which step it belongs to
NewToolCallResult_anonymous(step, success, result, error) ==
    [call_id |-> "", tool_name |-> "", success |-> success,
     result |-> result, error |-> error]

\* ToolCallResult(call_id=step.id, tool_name=step.tool_name, ...)
NewToolCallResult(step, success, result, error) ==
    [call_id |-> step.id, tool_name |-> step.tool_name, success |-> success,
     result |-> result, error |-> error]

\* the ToolCallResult of one loop iteration: the POST failed, or reply is
\* the body the server answered
StepResult(step, failure, reply) ==
    IF failure \in TransportFailures
    THEN NewToolCallResult(step, FALSE, FALSE, "HTTP error calling MCP")
    ELSE IF reply.kind = "error"
    THEN NewToolCallResult(step, FALSE, FALSE, "JSON-RPC error")
    ELSE NewToolCallResult(step, ~reply.isError, reply.content,
                           IF reply.isError THEN reply.error ELSE NoError)

\* ghost: how one loop iteration went
StepOutcome(failure, reply) ==
    IF failure \in TransportFailures THEN failure
    ELSE IF reply.kind = "error" THEN "jsonrpc_error"
    ELSE IF reply.isError THEN "tool_error"
    ELSE "ok"

\* a loop that keeps the results of the successful steps only
ResultsAfter_successOnly(results, r) == IF r.success THEN Append(results, r) ELSE results

\* tool_results.append(...)
ResultsAfter(results, r) == Append(results, r)

\* json.loads(summary_resp.content) raises
SummaryFallsBack(content) == content.kind = "not_json"

NoA2AResponse ==
    [made |-> FALSE, tool_results |-> <<>>, summary |-> "",
     recommendations |-> <<>>, risks |-> <<>>]

\* A2AResponse(...) of the summary round for a response that was parsed or
\* replaced by the fallback
NewA2AResponse(content, tool_results) ==
    IF SummaryFallsBack(content)
    THEN [made |-> TRUE, tool_results |-> tool_results, summary |-> FallbackSummary,
          recommendations |-> <<>>, risks |-> <<>>]
    ELSE IF content.has_keys
    THEN [made |-> TRUE, tool_results |-> tool_results, summary |-> "summary",
          recommendations |-> <<"recommendation">>, risks |-> <<"risk">>]
    ELSE \* summary_data.get("summary", ""), .get("recommendations") or []
         [made |-> TRUE, tool_results |-> tool_results, summary |-> "",
          recommendations |-> <<>>, risks |-> <<>>]

\* the exception that leaves the summary round, "none" if it returns
SummaryException(content) ==
    CASE content.kind = "llm_error" -> "LLMError"
      [] content.kind = "non_object" -> "AttributeError"    \* summary_data.get
      [] content.kind = "wrong_types" -> "ValidationError"  \* A2AResponse(...)
      [] OTHER -> "none"

NoRun ==
    [pc |-> "idle", plan_content |-> "none", plan |-> <<>>, idx |-> 0,
     tool_results |-> <<>>, outcomes |-> <<>>, sent |-> 0,
     summary_called |-> FALSE,
     summary_content |-> [kind |-> "none", has_keys |-> FALSE],
     response |-> NoA2AResponse, exc |-> "none"]

\* the position after the loop over plan.tool_calls went past step idx:
\* the next step's request is sent, or the summary LLM is called
AfterStep(r, idx) ==
    IF idx < Len(r.plan)
    THEN [r EXCEPT !.pc = "step", !.idx = idx + 1, !.sent = r.sent + 1]
    ELSE [r EXCEPT !.pc = "summary", !.idx = 0, !.summary_called = TRUE]

-----------------------------------------------------------------------------
(* Planning orchestrator and JSON-RPC endpoint actions *)

InitPlanning ==
    /\ run = NoRun
    /\ rpc = NoExchange

\* handle_user_query up to the tools/list request (lines 109-126)
HandleUserQuery ==
    /\ run.pc \in {"idle", "returned", "raised"}
    /\ run' = [NoRun EXCEPT !.pc = "tools_list"]
    /\ UNCHANGED rpc
    /\ PlanningOnly

\* the tools/list answer, up to the plan LLM call (lines 126-147)
ToolsListReply(ok) ==
    /\ run.pc = "tools_list"
    /\ run' = IF ok THEN [run EXCEPT !.pc = "plan"]
              ELSE [run EXCEPT !.pc = "raised", !.exc = "HTTPError"]
    /\ UNCHANGED rpc
    /\ PlanningOnly

\* the plan LLM answer, up to the first tools/call request (lines 147-187)
PlanReply(content) ==
    /\ run.pc = "plan"
    /\ run' = IF PlanParses(content)
              THEN AfterStep([run EXCEPT !.plan_content = content.kind,
                                         !.plan = content.tool_calls], 0)
              ELSE [run EXCEPT !.plan_content = content.kind,
                               !.pc = "raised", !.exc = PlanException(content)]
    /\ UNCHANGED rpc
    /\ PlanningOnly

\* the end of the POST of step run.idx, up to the next request or the
\* summary LLM call (lines 187-266); outcome is how execute_tool ends at the
\* server when the request reaches it
StepReply(failure, outcome) ==
    /\ run.pc = "step"
    /\ LET step == run.plan[run.idx]
           message == StepMessage(step)
           reply == McpEndpoint(message, outcome)
       IN
       /\ run' = AfterStep([run EXCEPT
                               !.tool_results =
                                   ResultsAfter(run.tool_results,
                                                StepResult(step, failure, reply)),
                               !.outcomes = Append(run.outcomes,
                                                   StepOutcome(failure, reply))],
                           run.idx)
       /\ rpc' = IF failure \in TransportFailures THEN rpc
                 ELSE [message |-> message, outcome |-> outcome,
                       response |-> McpEndpoint(message, outcome)]
    /\ PlanningOnly

\* the summary LLM answer, to the end of handle_user_query (lines 266-292)
SummaryReply(content) ==
    /\ run.pc = "summary"
    /\ run' = IF SummaryException(content) # "none"
              THEN [run EXCEPT !.summary_content = content, !.pc = "raised",
                               !.exc = SummaryException(content)]
              ELSE [run EXCEPT !.summary_content = content, !.pc = "returned",
                               !.response = NewA2AResponse(content, run.tool_results)]
    /\ UNCHANGED rpc
    /\ PlanningOnly

\* mcp_endpoint answering a tools/call message of any client
ToolsCall(message, outcome) ==
    /\ rpc' = [message |-> message, outcome |-> outcome,
               response |-> McpEndpoint(message, outcome)]
    /\ UNCHANGED run
    /\ PlanningOnly

NextPlanning ==
    \/ HandleUserQuery
    \/ \E ok \in BOOLEAN : ToolsListReply(ok)
    \/ \E content \in PlanContents : PlanReply(content)
    \/ \E failure \in TransportFailures \cup {"none"}, outcome \in ExecOutcomes :
          StepReply(failure, outcome)
    \/ \E content \in SummaryContents : SummaryReply(content)
    \/ \E message \in MessageInputs, outcome \in ExecOutcomes : ToolsCall(message, outcome)

-----------------------------------------------------------------------------
(* Specifications *)

\* the envelope's variables when only the registry runs
InitEnvelopeIdle ==
    /\ now = StartTime
    /\ api_configs = <<>>
    /\ rate_limits = <<>>
    /\ circuit_breakers = <<>>
    /\ inflight = [a \in ApiInputs |-> 0]
    /\ recorded = [a \in ApiNames |-> <<>>]
    /\ streak = [a \in ApiNames |-> 0]
    /\ ev = NoEvent

\* the agent after construction, beside a registry and an orchestrator
\* nobody uses
InitEnvelopeSpec ==
    InitEnvelope /\ InitRegistry /\ InitOrchestrator /\ InitPlanning

\* the registry after construction, beside an agent and an orchestrator
\* nobody uses
InitRegistrySpec ==
    InitRegistry /\ InitEnvelopeIdle /\ InitOrchestrator /\ InitPlanning

\* the orchestrator and its agent registry after construction
InitOrchestratorSpec ==
    InitOrchestrator /\ InitRegistry /\ InitEnvelopeIdle /\ InitPlanning

\* one handle_user_query run and the endpoint it calls
InitPlanningSpec ==
    InitPlanning /\ InitRegistry /\ InitEnvelopeIdle /\ InitOrchestrator

\* concurrent calls through one APIExecutorAgent
SpecEnvelope == InitEnvelopeSpec /\ [][NextEnvelope]_vars

\* concurrent use of one ToolRegistry
SpecRegistry == InitRegistrySpec /\ [][NextRegistry]_vars

\* lookups in one ToolRegistry whose tools come and go
SpecLookup == InitRegistrySpec /\ [][NextLookup]_vars

\* lookups in one ToolRegistry while tool calls are in flight
SpecLock == InitRegistrySpec /\ [][NextLock]_vars

\* one caller filling the execution history past its cap
SpecHistory == InitRegistrySpec /\ [][NextHistory]_vars

\* agents of one AgentRegistry: created, deleted, assigned tasks, working
SpecAgents == InitOrchestratorSpec /\ [][NextAgents]_vars

\* the started agents of one registry
SpecAgentLoop == InitOrchestratorSpec /\ [][NextAgentLoop]_vars

\* the same, the event loop running every agent's _message_loop task: a
\* queued message is taken by the wait of lines 151-154, and process_task
\* returns or raises
SpecAgentLoopFair ==
    SpecAgentLoop /\ \A agent_id \in AgentIds :
                        WF_vars(\E ok \in BOOLEAN : HandleTaskAssignment(agent_id, ok))

\* create_task of one TaskOrchestrator beside the agents of its registry
SpecAssignment == InitOrchestratorSpec /\ [][NextAssignment]_vars

\* the task map of one TaskOrchestrator
SpecTasks == InitOrchestratorSpec /\ [][NextTasks]_vars

\* update_task_status on the tasks of one TaskOrchestrator, with the clock
SpecTaskStatus == InitOrchestratorSpec /\ [][NextTaskStatus]_vars

\* the same, the event loop resuming a coroutine that waits for self._lock
\* once the lock is free
SpecTasksFair ==
    SpecTasks /\ WF_vars(\E domain \in Domains :
                            CreateTask("create_business_analysis", domain))

\* runs of handle_user_query against the MCP endpoint, one after another
SpecPlanning == InitPlanningSpec /\ [][NextPlanning]_vars

-----------------------------------------------------------------------------
(* Properties of the tool registry *)

\* the steps in which an execute_tool invocation ends
ExecuteEnded == rev.op \in {"execute", "finish"} /\ rev.outcome # "none"

\* the expected failures of execute_tool
ExpectedFailures == {"not_found", "not_active", "backing_failed"}

\* C2: on every expected failure (tool absent, tool not active, backing call
\* failed) the caller of execute_tool receives the completed ToolExecution
\* with its error set, and no exception leaves execute_tool.  (execute_tool
\* re-raises a ToolExecutionException from its except block, so this does
\* not hold.)
C2_FailureReturnsRecord ==
    (ExecuteEnded /\ rev.error \in ExpectedFailures) =>
        (rev.outcome = "returned" /\ rev.exc = "none")

\* C3: an execute_tool for a name absent from the registry at lookup time
\* reports a not-found failure, and the tool implementation is not invoked
\* for that call.
C3_AbsentToolNotFound ==
    (rev.op = "execute" /\ rev.params_ok /\ ~rev.present) =>
        /\ rev.outcome = "raised" /\ rev.error = "not_found"
        /\ ~rev.invoked
        /\ \A x \in execs : x.id # rev.id

\* C3 witness: a name that was registered, then unregistered, is looked up.
C3_Witness ==
    /\ rev.op = "execute" /\ rev.params_ok /\ ~rev.present
    /\ rev.error = "not_found" /\ ~rev.invoked
    /\ DOMAIN tools # {}

\* C4: an execute_tool for a registered tool whose status is inactive or
\* error reports a tool-unavailable failure without invoking the tool
\* implementation; the implementation is invoked only for active tools.
C4_InactiveToolUnavailable ==
    /\ (rev.op = "execute" /\ rev.params_ok /\ rev.present
          /\ rev.status \in {"inactive", "error"})
       => (rev.outcome = "raised" /\ rev.error = "not_active" /\ ~rev.invoked
           /\ \A x \in execs : x.id # rev.id)
    /\ (rev.op = "execute" /\ rev.invoked) => (rev.present /\ rev.status = "active")

\* C4 witness: a tool registered with status error is executed.
C4_Witness ==
    /\ rev.op = "execute" /\ rev.present /\ rev.status = "error"
    /\ rev.error = "not_active" /\ ~rev.invoked

\* the number of records of execution id in the history
RecordsOf(id) == Cardinality({i \in DOMAIN executions : executions[i].id = id})

\* the ids of the invocations still suspended in a tool implementation
RunningIds == {x.id : x \in execs}

\* C5: every invocation of execute_tool that takes one of its branches
\* (success, tool not found, tool not active, backing failure) has appended
\* exactly one record by the time it ends, and none before, under every
\* interleaving of concurrent invocations (counted over the whole history
\* while nothing has been evicted from it).
C5_OneRecordPerInvocation ==
    /\ nappend <= 1000 =>
         /\ \A id \in 1..nexec : RecordsOf(id) = IF id \in RunningIds THEN 0 ELSE 1
         /\ Len(executions) = nexec - Cardinality(execs)
    /\ (ExecuteEnded /\ rev.error # "invalid_parameters") => RecordsOf(rev.id) = 1

\* C5 witness: two invocations overlapped, the later one ended first with a
\* failure, and each has left exactly one record.
C5_Witness ==
    /\ Len(executions) >= 2 /\ execs = {}
    /\ executions[1].id > executions[2].id
    /\ executions[1].error = "backing_failed" /\ executions[2].error = "none"
    /\ \E i \in DOMAIN executions : executions[i].error = "not_found"

\* C6: the history never holds more than 1000 records; after n > 1000
\* appends get_execution_history sees exactly 1000 records, in insertion
\* order, the oldest being the (n - 1000 + 1)-th appended.
C6_BoundedHistoryFifo ==
    LET h == GetExecutionHistory(1000, 0) IN
    /\ Len(executions) <= 1000 /\ h = executions
    /\ Len(h) = IF nappend > 1000 THEN 1000 ELSE nappend
    /\ \A i \in DOMAIN h : h[i].ord = nappend - Len(h) + i

\* C6 witness: 1002 appends, and the oldest surviving record is the third.
C6_Witness ==
    /\ nappend = 1002 /\ Len(executions) = 1000
    /\ executions[1].ord = 3 /\ executions[1000].ord = 1002

-----------------------------------------------------------------------------
(* Properties of the resilience envelope *)

\* the breaker of the event's api before and after the step
PreBreaker == BreakerOf(ev.pre_cb, ev.api)
PostBreaker == BreakerOf(circuit_breakers, ev.api)

\* C1: a call denied by the rate limiter leaves the integration's
\* failure_count, last_failure_time and breaker state as they were before the
\* call.  (_execute_api_call raises the denial inside its try block, and the
\* except branch feeds the breaker a failure, so this does not hold.)
C1_RateDenialLeavesBreaker ==
    (ev.op = "begin" /\ ev.denied = "rate") => PostBreaker = PreBreaker

\* the recorded calls of the event's api that lie in the trailing window
RecordedInWindow ==
    {i \in DOMAIN recorded[ev.api] : recorded[ev.api][i] > ev.time - 60}

\* C7: a rate-limit check permits the call iff fewer than N recorded calls
\* have timestamps within the trailing W = 60 seconds (N the api's configured
\* limit): the first N calls of a window pass, the next is denied, and once
\* the clock is past W from those calls a call passes again.
C7_RateLimitWindow ==
    (ev.rate_checked /\ ev.api # NoApi) =>
        (ev.rate_ok <=> Cardinality(RecordedInWindow) < api_configs[ev.api])

\* C7 witness: a call is permitted again although N calls had filled one
\* window, now that all of them are older than W.
C7_Witness ==
    /\ ev.rate_checked /\ ev.rate_ok /\ ev.api # NoApi
    /\ Len(recorded[ev.api]) >= api_configs[ev.api]
    /\ api_configs[ev.api] >= 2
    /\ \A i \in DOMAIN recorded[ev.api] : recorded[ev.api][i] = StartTime
    /\ ev.time - StartTime >= 60

\* C8: from a closed breaker, the fifth consecutive failure outcome opens the
\* breaker, and a call begun while it is open and the recovery timeout has
\* not elapsed is denied without the backing request being sent.
C8_FiveFailuresOpen ==
    /\ (ev.fed = "failure" /\ streak[ev.api] >= 5) => PostBreaker.state = "open"
    /\ (ev.op = "begin" /\ ev.api # NoApi /\ PreBreaker.state = "open"
          /\ ev.time - PreBreaker.last_failure <= 30)
       => (ev.denied # "none" /\ ~ev.backing /\ ev.result = "failure")

\* C8 witness: the sixth call, right after five consecutive failures opened
\* the breaker, is denied by the breaker.
C8_Witness ==
    /\ ev.op = "begin" /\ ev.denied = "breaker" /\ ~ev.backing
    /\ ev.pre_streak = 5 /\ PreBreaker.state = "open" /\ PreBreaker.failures = 5

\* C9: a breaker check on an open breaker denies the call while
\* now - last_failure_time <= 30, and otherwise moves the breaker to half_open
\* and permits the call.
C9_OpenUntilTimeout ==
    (ev.cb_checked /\ ev.api # NoApi /\ PreBreaker.state = "open") =>
        IF ev.time - PreBreaker.last_failure <= 30
        THEN ~ev.cb_ok /\ ev.denied = "breaker" /\ ~ev.backing
        ELSE ev.cb_ok /\ ev.denied = "none" /\ ev.backing
             /\ PostBreaker.state = "half_open"

\* C9 witness: the first check after the timeout finds the breaker open and
\* leaves it half_open with the call permitted.
C9_Witness ==
    /\ ev.cb_checked /\ ev.cb_ok /\ ev.api # NoApi
    /\ PreBreaker.state = "open" /\ PostBreaker.state = "half_open"
    /\ ev.time - PreBreaker.last_failure > 30

\* C10: in half_open, a success outcome sets failure_count to 0 and the state
\* to closed; a failure outcome sets the state to open and last_failure_time
\* to the time of that failure.
C10_HalfOpenOutcome ==
    (ev.fed # "none" /\ PreBreaker.state = "half_open") =>
        /\ ev.fed = "success" =>
              (PostBreaker.failures = 0 /\ PostBreaker.state = "closed")
        /\ ev.fed = "failure" =>
              (PostBreaker.state = "open" /\ PostBreaker.last_failure = ev.time)

\* C10 witness: the probe's backing request fails and the breaker is open
\* again, stamped with the time of the failure.
C10_Witness ==
    /\ ev.op = "respond" /\ ev.fed = "failure"
    /\ PreBreaker.state = "half_open" /\ PostBreaker.state = "open"
    /\ PostBreaker.last_failure = ev.time
    /\ PreBreaker.last_failure < ev.time

\* C11: a success outcome fed to a closed breaker sets failure_count to 0 and
\* leaves the breaker closed; a breaker is open only while at least 5 failure
\* outcomes were fed since the last success outcome, and the step that takes a
\* closed breaker to open feeds the fifth of them.
C11_SuccessResetsCount ==
    /\ (ev.fed = "success" /\ PreBreaker.state = "closed") =>
          (PostBreaker.failures = 0 /\ PostBreaker.state = "closed")
    /\ \A a \in ApiNames :
          BreakerOf(circuit_breakers, a).state = "open" => streak[a] >= 5
    /\ (ev.api # NoApi /\ PreBreaker.state = "closed" /\ PostBreaker.state = "open") =>
          (ev.fed = "failure" /\ ev.pre_streak = 4)

\* C11 witness: a backing response below 400 arrives while the breaker is
\* closed with failures counted, and the count is back at 0.
C11_Witness ==
    /\ ev.op = "respond" /\ ev.fed = "success"
    /\ PreBreaker.state = "closed" /\ PreBreaker.failures >= 2
    /\ PostBreaker.failures = 0 /\ PostBreaker.state = "closed"

\* C12: the calls for one integration name that pass the rate-limit check and
\* are sent to the backing integration back to back at one clock value (all of
\* them inside the window that ends there) never number more than the limit.
C12_ConcurrentCallersWithinLimit ==
    (ev.op = "begin" /\ ev.backing /\ ev.api # NoApi) =>
        ev.burst <= RateLimitOf(ev.api)

\* C13: a call whose breaker check finds the breaker half_open (a probe was
\* permitted and no outcome has been fed to the breaker since) is denied.
C13_SingleProbe ==
    (ev.op = "begin" /\ ev.cb_checked /\ ev.api # NoApi
        /\ PreBreaker.state = "half_open") =>
        (~ev.cb_ok /\ ~ev.backing)

-----------------------------------------------------------------------------
(* Properties of the task orchestrator *)

\* the capabilities a task of the domain requires: the domain's own, and the
\* baseline every domain gets
RequiredFor(domain) ==
    IF domain = "finance"
    THEN {"financial_analysis", "data_processing",
          "report_generation", "data_visualization"}
    ELSE {"report_generation", "data_visualization"}

\* positions in the registry ags of the idle agents that have all of required
CapableIdleIn(ags, required) ==
    {i \in DOMAIN ags :
        ags[i].status = "idle" /\ required \subseteq ags[i].capabilities}

CapableIdle(required) == CapableIdleIn(agents, required)

\* C14: an update_task_status on a task whose status is completed or failed
\* leaves the task's status as it was.
C14_TerminalFinal ==
    (oev.op = "update_task_status" /\ oev.ok
        /\ oev.pre_status \in {"completed", "failed"}) =>
        tasks[oev.task].status = oev.pre_status

\* C15: a create_business_analysis call that has stored its analysis and
\* gone on to its sub-tasks eventually returns, three sub-tasks recorded and
\* the orchestrator lock free again.
C15_AnalysisReturns ==
    (analysis.pc = "subtasks") ~>
        (analysis.pc = "returned" /\ analysis.subtasks = 3 /\ lock = "free")

\* C16: a create_task that finds no idle agent with all the capabilities the
\* task's domain requires raises nothing, answers status pending with
\* agent_id None and stores the task pending, unbound and not started; and no
\* later step changes a stored task that is pending and unbound.
C16_NoCapableAgentPending ==
    [][/\ (oev'.op = "create_task" /\ CapableIdleIn(agents', RequiredFor(oev'.domain)) = {}) =>
             /\ oev'.exc = "none"
             /\ oev'.status = "pending" /\ oev'.resp_agent = NoAgent
             /\ Len(tasks') = Len(tasks) + 1 /\ oev'.task = Len(tasks')
             /\ tasks'[oev'.task].status = "pending"
             /\ tasks'[oev'.task].agent_id = NoAgent
             /\ ~tasks'[oev'.task].started_at
       /\ \A t \in DOMAIN tasks :
             (tasks[t].status = "pending" /\ tasks[t].agent_id = NoAgent) =>
                 (t \in DOMAIN tasks' /\ tasks'[t] = tasks[t])
      ]_vars

\* C16 witness: a finance task is created while the only agent with the four
\* capabilities is not idle, and it is answered pending; an earlier pending
\* task is still in the map.
C16_Witness ==
    /\ oev.op = "create_task" /\ oev.domain = "finance"
    /\ CapableIdle(RequiredFor("finance")) = {}
    /\ \E i \in DOMAIN agents :
          /\ RequiredFor("finance") \subseteq agents[i].capabilities
          /\ agents[i].status # "idle"
    /\ oev.status = "pending" /\ oev.resp_agent = NoAgent
    /\ oev.task = 2 /\ tasks[1].status = "pending"

\* C17: a create_task that finds at least one idle agent with all the
\* required capabilities answers status processing with the id of the first
\* such agent in registry order, and the stored task is processing, bound to
\* that agent and started.  (An agent whose id is the empty string is found
\* but not bound, so this does not hold.)
C17_FirstCapableBound ==
    (oev.op = "create_task" /\ CapableIdle(RequiredFor(oev.domain)) # {}) =>
        LET first == CHOOSE i \in CapableIdle(RequiredFor(oev.domain)) :
                        \A j \in CapableIdle(RequiredFor(oev.domain)) : i <= j
        IN /\ oev.status = "processing"
           /\ oev.resp_agent = agents[first].id
           /\ tasks[oev.task].status = "processing"
           /\ tasks[oev.task].agent_id = agents[first].id
           /\ tasks[oev.task].started_at

-----------------------------------------------------------------------------
(* Properties of the agents and their registry *)

\* the agent the last step was about, as it is now
PostAgent == AgentOf(agents, oev.agent)

\* C18: assign_task on an agent whose status is not idle raises the
\* not-idle error and leaves the agent (current_task, status, message queue
\* and the rest) as it was.
C18_BusyAgentRejects ==
    (oev.op = "assign_task" /\ oev.pre.status # "idle") =>
        /\ oev.exc = "not_idle"
        /\ PostAgent.current_task = oev.pre.current_task
        /\ PostAgent.status = oev.pre.status
        /\ PostAgent.message_queue = oev.pre.message_queue
        /\ PostAgent = oev.pre

\* C18 witness: an agent that is processing one task is assigned another.
C18_Witness ==
    /\ oev.op = "assign_task" /\ oev.exc = "not_idle"
    /\ oev.pre.status = "processing"
    /\ oev.pre.current_task # oev.task
    /\ PostAgent.current_task = oev.pre.current_task

\* C19: across every step that does not replace the agent object by a newly
\* created one, an agent's status changes only from idle to processing in
\* assign_task, from processing to idle when process_task succeeded
\* (tasks_completed one more) and from processing to error when it failed
\* (tasks_completed as before); tasks_completed changes in no other step, and
\* an agent in error stays in error.
C19_Lifecycle ==
    [][\A id \in AgentIds :
          LET a == AgentOf(agents, id)
              b == AgentOf(agents', id)
              mine == oev'.agent = id
          IN (IndexOf(agents, id) # 0 /\ IndexOf(agents', id) # 0
                 /\ oev'.op # "create_agent") =>
             /\ a.status # b.status =>
                   \/ /\ a.status = "idle" /\ b.status = "processing"
                      /\ oev'.op = "assign_task" /\ mine
                      /\ b.tasks_completed = a.tasks_completed
                   \/ /\ a.status = "processing" /\ b.status = "idle"
                      /\ oev'.op = "handle_task_assignment" /\ mine /\ oev'.ok
                      /\ b.tasks_completed = a.tasks_completed + 1
                   \/ /\ a.status = "processing" /\ b.status = "error"
                      /\ oev'.op = "handle_task_assignment" /\ mine /\ ~oev'.ok
                      /\ b.tasks_completed = a.tasks_completed
             /\ a.status = b.status => b.tasks_completed = a.tasks_completed
             /\ a.status = "error" => b.status = "error"
      ]_vars

\* C19 witness: an agent whose process_task failed is in error, and an
\* assign_task on it has left it there.
C19_Witness ==
    /\ oev.op = "assign_task"
    /\ oev.pre.status = "error" /\ PostAgent.status = "error"
    /\ PostAgent.current_task = NoTask

\* C20: find_capable_agents(required) returns each registered agent that is
\* idle and has every required capability, nothing else, each id once and in
\* the order in which the registry holds the agents.
C20_CapableIdleInOrder ==
    (oev.op = "find_capable_agents") =>
        /\ \A id \in AgentIds \cup {NoAgent} :
              (\E k \in DOMAIN oev.found : oev.found[k] = id) <=>
              (\E i \in CapableIdle(oev.required) : agents[i].id = id)
        /\ \A k1, k2 \in DOMAIN oev.found :
              k1 < k2 => IndexOf(agents, oev.found[k1]) < IndexOf(agents, oev.found[k2])
        /\ Len(oev.found) = Cardinality(CapableIdle(oev.required))

\* C20 witness: two idle agents with the finance capabilities are returned,
\* the one stored first in front, while an agent registry of two holds them
\* in that order.
C20_Witness ==
    /\ oev.op = "find_capable_agents"
    /\ oev.required = RequiredFor("finance")
    /\ oev.found = <<"agent-1", "">>
    /\ Len(agents) = 2 /\ agents[1].id = "agent-1"

-----------------------------------------------------------------------------
(* Properties of the planning orchestrator *)

\* C21: when the plan LLM's response does not parse as a Plan, the run ends
\* with the parse exception raised to the caller: no tools/call request was
\* sent, the summary LLM was not called and no A2AResponse was made.
C21_PlanParseFailureFatal ==
    run.plan_content \in {"not_json", "wrong_shape"} =>
        /\ run.pc = "raised"
        /\ run.exc \in {"JSONDecodeError", "ValidationError"}
        /\ run.sent = 0
        /\ run.tool_results = <<>>
        /\ ~run.summary_called
        /\ ~run.response.made

\* a run that ended on JSON which is no Plan
C21_Witness ==
    run.plan_content = "wrong_shape" /\ run.pc = "raised" /\ run.exc = "ValidationError"

\* C22: within one run the steps go one after another in plan order: the
\* request of step i+1 is not sent before the result of step i is in
\* tool_results; entry i of tool_results carries the id and the tool name of
\* plan step i, and once the loop is over there is one entry per plan step.
C22_StepsInPlanOrder ==
    /\ run.sent <= Len(run.tool_results) + 1
    /\ run.pc = "step" => run.idx = Len(run.tool_results) + 1 /\ run.sent = run.idx
    /\ Len(run.tool_results) <= Len(run.plan)
    /\ \A i \in 1..Len(run.tool_results) :
          /\ run.tool_results[i].call_id = run.plan[i].id
          /\ run.tool_results[i].tool_name = run.plan[i].tool_name
    /\ run.summary_called =>
          Len(run.tool_results) = Len(run.plan) /\ run.sent = Len(run.plan)

\* a run that returned after a plan of MaxSteps steps with different tools
C22_Witness ==
    /\ run.pc = "returned"
    /\ Len(run.plan) = MaxSteps
    /\ run.plan[1].tool_name # run.plan[2].tool_name
    /\ Len(run.response.tool_results) = MaxSteps

\* the text of a ToolCallResult's error is there
HasErrorText(r) == r.error # NoError /\ r.error # ""

\* C23: a plan step that fails (the POST fails, the server answers a
\* JSON-RPC error, or the tool reports an error) is in tool_results at its
\* own position with success false and a non-empty error text, and the loop
\* goes on: when it is over every step of the plan was attempted.
C23_FailedStepRecorded ==
    /\ \A i \in 1..Len(run.outcomes) :
          run.outcomes[i] # "ok" =>
              /\ i <= Len(run.tool_results)
              /\ run.tool_results[i].call_id = run.plan[i].id
              /\ ~run.tool_results[i].success
              /\ HasErrorText(run.tool_results[i])
    /\ Len(run.outcomes) = Len(run.tool_results)
    /\ run.pc = "step" => Len(run.outcomes) = run.idx - 1
    /\ run.summary_called => Len(run.outcomes) = Len(run.plan)

\* a first step whose POST failed, a later step the server refused, and
\* the loop over
C23_Witness ==
    /\ run.summary_called
    /\ Len(run.outcomes) >= 2
    /\ run.outcomes[1] = "transport"
    /\ run.outcomes[Len(run.outcomes)] = "jsonrpc_error"
    /\ ~run.tool_results[1].success

\* the summary LLM answered something that is no
\* {summary, recommendations, risks}
SummaryMisparsed ==
    \/ run.summary_content.kind \in {"not_json", "non_object", "wrong_types"}
    \/ run.summary_content.kind = "object" /\ ~run.summary_content.has_keys

\* C24: when the summary LLM's response does not parse as
\* {summary, recommendations, risks} the run still returns an A2AResponse:
\* its summary is the fixed non-empty fallback text, its recommendations and
\* risks are empty and its tool_results are those of the execute round.
C24_SummaryFallback ==
    SummaryMisparsed =>
        /\ run.pc = "returned"
        /\ run.response.made
        /\ run.response.summary = FallbackSummary
        /\ run.response.summary # ""
        /\ run.response.recommendations = <<>>
        /\ run.response.risks = <<>>
        /\ run.response.tool_results = run.tool_results

-----------------------------------------------------------------------------
(* Properties of the JSON-RPC endpoint *)

\* the tools/call message reached execute_tool
NameGiven == rpc.message.params = "map" /\ rpc.message.name # ""

\* execute_tool raised
ExecutionFailed ==
    rpc.message.arguments = "non_map" \/ rpc.outcome = "ToolExecutionException"

-----------------------------------------------------------------------------
(* Properties of the tool registry's lookups *)

\* C26: register is an upsert keyed by name: after any sequence of register
\* and unregister calls the registry holds at most one entry per name, and
\* get(name) returns the tool of the latest register of that name, or
\* nothing when the name was never registered or was unregistered since.
C26_RegisterIsUpsert ==
    /\ DOMAIN tools \subseteq ToolNames
    /\ \A name \in ToolNames : GetTool(name) = registered[name]
    /\ rev.op = "get" =>
          /\ rev.present = (registered[rev.tool] # NoTool)
          /\ rev.status = registered[rev.tool].status

\* a get that returns another tool than the one an earlier list_all showed
\* under that name
C26_Witness ==
    /\ rev.op = "get"
    /\ rev.present
    /\ listed.held
    /\ rev.tool \in DOMAIN listed.entries
    /\ listed.entries[rev.tool].status # rev.status

C29_NonMapParametersRecorded ==
    rev.op = "execute" /\ ~rev.params_ok =>
        /\ rev.error = "invalid_parameters"
        /\ ~rev.invoked
        /\ RecordsOf(rev.id) = 1

-----------------------------------------------------------------------------
(* Properties of the resilience envelope's rate-limit sequence *)

\* C30: every call attempt that passed the rate-limit check and the
\* circuit-breaker check appends one timestamp, the time of the step, to its
\* integration's rate-limit sequence, whatever the backing call's outcome
\* (response received, transport error or timeout).
C30_PermittedCallRecorded ==
    ev.op = "respond" /\ ev.api # NoApi =>
        LET before == RateList(ev.pre_rl, ev.api)
            after == RateList(rate_limits, ev.api)
        IN /\ after # <<>>
           /\ after[Len(after)] = ev.time
           /\ after # before

\* C31: a call denied by the rate limiter or by the circuit breaker sends no
\* backing request and leaves the integration's stored rate-limit sequence
\* as it was; after every record all stored timestamps of that name are
\* newer than now - 60.
C31_DenialDoesNotRecord ==
    /\ ev.op = "begin" /\ ev.denied \in {"rate", "breaker"} =>
          ~ev.backing /\ rate_limits = ev.pre_rl
    /\ ev.op = "respond" /\ ev.outcome # "transport" /\ ev.api # NoApi =>
          LET after == RateList(rate_limits, ev.api) IN
          /\ after # <<>>
          /\ \A i \in DOMAIN after : after[i] > ev.time - 60

\* a call denied by the rate limiter whose stored sequence holds the calls
\* that filled the window
C31_Witness ==
    /\ ev.op = "begin" /\ ev.denied = "rate" /\ ~ev.backing
    /\ Len(RateList(rate_limits, ev.api)) >= 2
    /\ rate_limits = ev.pre_rl

\* C32: a transport-level failure of a permitted backing call (unreachable,
\* timeout) is one circuit-breaker failure of that integration (count plus
\* one, stamped with the time of the failure) and the call returns a result
\* with success false and an error text instead of raising.
C32_TransportFailureCounted ==
    ev.op = "respond" /\ ev.outcome = "transport" =>
        /\ ev.result = "failure"
        /\ ev.error
        /\ ev.api # NoApi =>
              /\ ev.fed = "failure"
              /\ PostBreaker.failures = PreBreaker.failures + 1
              /\ PostBreaker.last_failure = ev.time
              /\ streak[ev.api] = ev.pre_streak + 1

\* a transport failure on a breaker that had counted failures before
C32_Witness ==
    /\ ev.op = "respond" /\ ev.outcome = "transport" /\ ev.api # NoApi
    /\ PreBreaker.failures >= 1
    /\ PostBreaker.failures = PreBreaker.failures + 1
    /\ ev.result = "failure"

\* C33: the circuit breaker and the reported result agree on every backing
\* response: a response reported as a failure (success false) is fed to the
\* breaker as a failure, one reported as a success is fed as a success.
C33_BreakerAgreesWithResult ==
    ev.op = "respond" /\ ev.outcome # "transport" /\ ev.api # NoApi =>
        /\ ev.result = "failure" => ev.fed = "failure"
        /\ ev.result = "success" => ev.fed = "success"

\* C36: a call denied because the breaker is open leaves the integration's
\* failure_count, last_failure_time and state as they were, so calls that
\* keep arriving while the breaker is open do not postpone the moment at
\* which it becomes half_open.
C36_OpenDenialLeavesBreaker ==
    ev.op = "begin" /\ ev.denied = "breaker" => PostBreaker = PreBreaker

\* C38: in every reachable state of every integration's breaker, state open
\* or half_open implies failure_count >= 5 and state closed implies
\* failure_count < 5, under any interleaving of call outcomes.
C38_StateMatchesCount ==
    \A api \in DOMAIN circuit_breakers :
        LET b == circuit_breakers[api] IN
        /\ b.state \in {"open", "half_open"} => b.failures >= 5
        /\ b.state = "closed" => b.failures < 5

\* a half_open breaker while a call begun before it opened is in flight
C38_Witness ==
    /\ ev.api # NoApi
    /\ PostBreaker.state = "half_open"
    /\ PostBreaker.failures >= 5
    /\ inflight[ev.api] >= 2

-----------------------------------------------------------------------------
(* Properties of the task map and the agent registry *)

\* C34: update_task_status into a terminal state is idempotent and stamps
\* completed_at: an update to completed or failed leaves the task with a
\* completed_at, and repeating the update the task already had leaves the
\* task record, completed_at included, as it was after the first.
C34_TerminalUpdateIdempotent ==
    (oev.op = "update_task_status" /\ oev.ok
        /\ oev.status \in {"completed", "failed"}) =>
        /\ tasks[oev.task].status = oev.status
        /\ tasks[oev.task].completed_at # NoTime
        /\ oev.pre_status = oev.status =>
              tasks[oev.task].completed_at = oev.pre_completed_at

\* C35: after any sequence of create_task calls no two tasks in status
\* processing are bound to the same agent: an agent that create_task has
\* bound to a task is not selected for another until the first has finished.
C35_OneProcessingTaskPerAgent ==
    \A i \in DOMAIN tasks, j \in DOMAIN tasks :
        (/\ i # j
         /\ tasks[i].status = "processing" /\ tasks[j].status = "processing"
         /\ tasks[i].agent_id # NoAgent) =>
            tasks[i].agent_id # tasks[j].agent_id

\* C37: a successful create_agent adds one new entry to the agent registry
\* under an identity distinct from every agent already registered, so that
\* the agents registered before it are all still there.  Stated for the
\* agent classes that keep the agent_id create_agent hands them, as
\* BaseAgent.__init__ does.
C37_CreateAgentAddsEntry ==
    (oev.op = "create_agent" /\ oev.exc = "none" /\ oev.agent = "") =>
        /\ oev.pre = NoAgentObject
        /\ IndexOf(agents, oev.agent) = Len(agents)

\* C39: in every state between an agent's operations the agent's status is
\* processing if and only if its current_task is set; an agent that is idle
\* or in error has no current_task.
C39_ProcessingIffCurrentTask ==
    \A i \in DOMAIN agents :
        /\ agents[i].status = "processing" <=> agents[i].current_task # NoTask
        /\ agents[i].status \in {"idle", "error"} => agents[i].current_task = NoTask

\* C39 witness: process_task has raised for an agent that held a task; the
\* agent is in error and holds none, beside an agent that is processing one.
C39_Witness ==
    /\ oev.op = "handle_task_assignment" /\ ~oev.ok
    /\ oev.pre.status = "processing" /\ oev.pre.current_task # NoTask
    /\ PostAgent.status = "error" /\ PostAgent.current_task = NoTask
    /\ \E i \in DOMAIN agents :
          agents[i].status = "processing" /\ agents[i].current_task # NoTask

\* C40: under fair scheduling an agent that has been started, has been
\* assigned a task and is not stopped eventually leaves status processing:
\* its message loop takes the assignment, runs process_task and sets the
\* status to idle or error.  delete_agent is what stops an agent, and it
\* takes the agent out of the registry.
C40_AssignedAgentLeavesProcessing ==
    \A agent_id \in AgentIds :
        (IndexOf(agents, agent_id) # 0
            /\ AgentOf(agents, agent_id).status = "processing")
        ~> (\/ IndexOf(agents, agent_id) = 0
            \/ AgentOf(agents, agent_id).status \in {"idle", "error"})

\* C40 witness: the message loop has taken the assignment of an agent that
\* was processing, process_task has returned and the agent is idle again
\* with an empty queue.
C40_Witness ==
    /\ oev.op = "handle_task_assignment" /\ oev.ok
    /\ oev.pre.status = "processing" /\ Len(oev.pre.message_queue) = 1
    /\ PostAgent.status = "idle" /\ PostAgent.message_queue = <<>>
    /\ PostAgent.tasks_completed = oev.pre.tasks_completed + 1

=============================================================================
